---- MODULE Spec2Model ----
(***************************************************************************)
(* TimeTrackingWidget (src/components/employee/time-tracking-widget.tsx).  *)
(*                                                                         *)
(* The widget is a React function component.  Its state is the useState    *)
(* cells (currentEntry, isLoading, elapsedTime, breakTime, ...), the two   *)
(* refs, the asynchronous operations that are between two awaits, and the  *)
(* timers it has scheduled.  Every handler is cut at its await points:     *)
(* one action per synchronous stretch of code.                             *)
(*                                                                         *)
(* The handlers read isLoading and currentEntry from the closure of the    *)
(* render that created them; `view` is that committed render.  A state     *)
(* update made in a click handler is committed before the next event is    *)
(* dispatched (React flushes discrete events synchronously); a state       *)
(* update made after an await is committed by a later step, Commit, which  *)
(* also runs the effect that depends on currentEntry.                      *)
(***************************************************************************)
EXTENDS Integers, Sequences, FiniteSets, TLC

\* ------------------------------------------------------------------ bounds
\* The clock runs from 0 to MaxTime.
MaxTime == 1
\* How many handler invocations may be between invocation and completion.
MaxOps == 2
\* How many sessions the service may have recorded.
MaxEntries == 4
\* How many history fetches (scheduled or in flight) may be outstanding.
MaxFetches == 2
\* How many successful mutations a run follows.
MaxMutations == 2
\* The timestamps handed to the display computations denote instants 0..MaxStamp.
MaxStamp == 4

\* ---------------------------------------------------------------- sessions
\* An absent optional timestamp (break_start?: string).
NoTime == -1

\* currentEntry === null.
Null == [status |-> "null", clock_in |-> NoTime, break_start |-> NoTime]

Session(st, ci, bs) == [status |-> st, clock_in |-> ci, break_start |-> bs]

\* currentEntry?.status === 'active' || currentEntry?.status === 'break'
IsOpen(e) == e.status \in {"active", "break"}

VARIABLES
  now,              \* Date.now(), in seconds
  srv,              \* the service's open session of the user, or Null
  srvLog,           \* how many entries the service's history holds
  currentEntry,     \* useState<CurrentTimeEntry | null>(null)
  recentActivities, \* useState<RecentActivity[]>([])
  isLoading,        \* useState(true)
  elapsedTime,      \* useState(0)
  breakTime,        \* useState(0)
  isRealTime,       \* useState(false)
  view,             \* the committed render: what the closures and the JSX read
  intervalRef,      \* intervalRef.current: the interval it designates, or Null
  timers,           \* the session-timer intervals that are scheduled (their closures)
  initPc,           \* where initializeWidget is
  ce,               \* fetchCurrentEntry: its stage and how it ended
  ops,              \* the mutating handlers between invocation and completion
  fetches,          \* the fetchRecentActivities calls scheduled or in flight
  toast,            \* the notification raised last
  lastOk,           \* the last mutation whose response reported success
  events,           \* how many timeTrackingChanged events were dispatched
  latest,           \* what the most recently issued history fetch delivered
  mounted,          \* the component is mounted
  clockOn,          \* the 1-second clock interval is scheduled
  currentTime,      \* useState(new Date())
  disp              \* the display computation made last, and its result

vars == <<now, srv, srvLog, currentEntry, recentActivities, isLoading,
          elapsedTime, breakTime, isRealTime, view, intervalRef, timers,
          initPc, ce, ops, fetches, toast, lastOk, events, latest,
          mounted, clockOn, currentTime, disp>>

\* What the handlers, the fetches and the session timer never write.
extra == <<mounted, clockOn, currentTime, disp>>

\* The outcomes of getCurrentUser(): a user, no user, or a rejected promise.
AuthOutcomes == {"user", "none", "throw"}

\* The non-OK statuses fetchCurrentEntry tells apart, and one it does not.
BadStatuses == {404, 401, 500}

Remove(s, i) == SubSeq(s, 1, i - 1) \o SubSeq(s, i + 1, Len(s))

\* ------------------------------------------------------------- the service
\* The time-tracking API behind POST /api/time-entries: it keeps at most one
\* open session per user and answers {success, data, error?}.
ServiceApply(s, kind, t) ==
  CASE kind = "clock_in" ->
         IF s = Null
           THEN [success |-> TRUE, data |-> Session("active", t, NoTime),
                 srv |-> Session("active", t, NoTime)]
           ELSE [success |-> FALSE, data |-> Null, srv |-> s]
    [] kind = "clock_out" ->
         IF IsOpen(s)
           THEN [success |-> TRUE, data |-> [s EXCEPT !.status = "completed"],
                 srv |-> Null]
           ELSE [success |-> FALSE, data |-> Null, srv |-> s]
    [] kind = "start_break" ->
         IF s.status = "active"
           THEN [success |-> TRUE, data |-> Session("break", s.clock_in, t),
                 srv |-> Session("break", s.clock_in, t)]
           ELSE [success |-> FALSE, data |-> Null, srv |-> s]
    [] kind = "end_break" ->
         IF s.status = "break"
           THEN [success |-> TRUE, data |-> [s EXCEPT !.status = "active"],
                 srv |-> [s EXCEPT !.status = "active"]]
           ELSE [success |-> FALSE, data |-> Null, srv |-> s]

\* GET /api/time-entries: the n recorded entries, most recent first; an entry
\* is named by its rank in the service's log.
HistoryOf(n) == [i \in 1..n |-> n + 1 - i]

\* The service records an entry when a session is created; MaxEntries stands
\* for "MaxEntries or more".
LogAfter(n, kind, success) ==
  IF kind = "clock_in" /\ success /\ n < MaxEntries THEN n + 1 ELSE n

\* ------------------------------------------------------- render and timers
\* Slice3 without the slice: every entry returned is kept.
SliceAll(l) == l

\* result.data.slice(0, 3)
Slice3(l) == SubSeq(l, 1, IF Len(l) < 3 THEN Len(l) ELSE 3)

\* Buttons with Clock In rendered whatever the entry.
ButtonsAlwaysIn(v) ==
  IF v.isLoading THEN {}
  ELSE IF v.currentEntry # Null
    THEN (IF v.currentEntry.status = "active" THEN {"clock_out", "clock_in"}
          ELSE {"clock_in"})
    ELSE {"clock_in"}

\* Buttons with Clock Out rendered for every entry, on break too.
ButtonsOutOnBreak(v) ==
  IF v.isLoading THEN {}
  ELSE IF v.currentEntry # Null THEN {"clock_out"} ELSE {"clock_in"}

\* The action buttons of the committed render (the skeleton has none).
Buttons(v) ==
  IF v.isLoading THEN {}
  ELSE IF v.currentEntry # Null
    THEN (IF v.currentEntry.status = "active" THEN {"clock_out"} ELSE {})
    ELSE {"clock_in"}

\* updateTimer, for the entry e its closure holds: the new elapsedTime.
UpdateElapsed(e, old) ==
  IF e.status = "active" THEN now - e.clock_in ELSE old

\* updateTimer, for the entry e its closure holds: the new breakTime.
UpdateBreak(e, old) ==
  IF e.status # "active" /\ e.status = "break" /\ e.break_start # NoTime
    THEN now - e.break_start ELSE old

\* A session-timer interval fires: updateTimer runs with the entry of the
\* render that scheduled it.
Tick ==
  /\ \E e \in timers :
       /\ elapsedTime' = UpdateElapsed(e, elapsedTime)
       /\ breakTime' = UpdateBreak(e, breakTime)
  /\ UNCHANGED <<now, srv, srvLog, currentEntry, recentActivities, isLoading,
                 isRealTime, view, intervalRef, timers, initPc, ce, ops,
                 fetches, latest, toast, lastOk, events>>

\* TimerEffect without the cleanup of the previous run.
TimerEffectNoCleanup ==
  IF IsOpen(currentEntry)
    THEN /\ elapsedTime' = UpdateElapsed(currentEntry, elapsedTime)
         /\ breakTime' = UpdateBreak(currentEntry, breakTime)
         /\ timers' = timers \cup {currentEntry}
         /\ intervalRef' = currentEntry
    ELSE /\ timers' = timers \ {intervalRef}
         /\ intervalRef' = Null
         /\ UNCHANGED <<elapsedTime, breakTime>>

\* useEffect(..., [currentEntry]): the cleanup of the previous run, then the
\* body with the new entry.
TimerEffect ==
  LET cleared == timers \ {intervalRef} IN
  IF IsOpen(currentEntry)
    THEN /\ elapsedTime' = UpdateElapsed(currentEntry, elapsedTime)
         /\ breakTime' = UpdateBreak(currentEntry, breakTime)
         /\ timers' = cleared \cup {currentEntry}
         /\ intervalRef' = currentEntry
    ELSE /\ timers' = cleared
         /\ intervalRef' = Null
         /\ UNCHANGED <<elapsedTime, breakTime>>

\* React commits the pending state updates: the component re-renders and the
\* effect runs if currentEntry changed.
Commit ==
  /\ mounted
  /\ view # [isLoading |-> isLoading, currentEntry |-> currentEntry]
  /\ view' = [isLoading |-> isLoading, currentEntry |-> currentEntry]
  /\ IF view.currentEntry # currentEntry
       THEN TimerEffect
       ELSE UNCHANGED <<elapsedTime, breakTime, timers, intervalRef>>
  /\ UNCHANGED <<now, srv, srvLog, currentEntry, recentActivities, isLoading,
                 isRealTime, initPc, ce, ops, fetches, latest, toast, lastOk, events>>

\* A second passes.
Advance ==
  /\ now < MaxTime
  /\ now' = now + 1
  /\ UNCHANGED <<srv, srvLog, currentEntry, recentActivities, isLoading,
                 elapsedTime, breakTime, isRealTime, view, intervalRef, timers,
                 initPc, ce, ops, fetches, latest, toast, lastOk, events>>

\* ------------------------------------------------------------ initial load
NoRes == [success |-> FALSE, data |-> Null]

\* A fetchRecentActivities call: scheduled or awaiting getCurrentUser
\* ("start"), request sent ("sent"), response on its way ("replied").
Fetch(stage, initial, n) ==
  [stage |-> stage, initial |-> initial, data |-> n, last |-> FALSE]

\* No history fetch has delivered since the most recent one was issued.
Pending == -1

\* initializeWidget, up to Promise.all: getCurrentUser() is awaited outside any
\* try, its result is only logged, then both fetches are started.
initializeWidget ==
  /\ initPc = "auth"
  /\ \E u \in AuthOutcomes :
       IF u = "throw"
         THEN /\ initPc' = "rejected"
              /\ UNCHANGED <<ce, fetches, latest>>
         ELSE /\ initPc' = "fetch"
              /\ ce' = [stage |-> "auth", outcome |-> "pending"]
              /\ fetches' = Append(fetches, Fetch("start", TRUE, 0))
              /\ UNCHANGED latest
  /\ UNCHANGED <<now, srv, srvLog, currentEntry, recentActivities, isLoading,
                 elapsedTime, breakTime, isRealTime, view, intervalRef, timers,
                 ops, toast, lastOk, events>>

\* Promise.all resolves once both fetches have returned (the fetchCurrentEntry
\* call is over); the 150 ms timeout is scheduled.
initializeJoin ==
  /\ initPc = "fetch"
  /\ ce.stage = "done"
  /\ \A i \in 1..Len(fetches) : ~fetches[i].initial
  /\ initPc' = "timeout"
  /\ ce' = [stage |-> "idle", outcome |-> "pending"]
  /\ UNCHANGED <<now, srv, srvLog, currentEntry, recentActivities, isLoading,
                 elapsedTime, breakTime, isRealTime, view, intervalRef, timers,
                 ops, fetches, latest, toast, lastOk, events>>

\* setTimeout(() => setIsLoading(false), 150)
initializeTimeout ==
  /\ initPc = "timeout"
  /\ initPc' = "done"
  /\ isLoading' = FALSE
  /\ UNCHANGED <<now, srv, srvLog, currentEntry, recentActivities,
                 elapsedTime, breakTime, isRealTime, view, intervalRef, timers,
                 ce, ops, fetches, latest, toast, lastOk, events>>

\* ------------------------------------------------------- fetchCurrentEntry
\* fetchCurrentEntryCatch with the toast.error of the handlers' catch.
fetchCurrentEntryCatchToast ==
  /\ currentEntry' = Null
  /\ ce' = [stage |-> "done", outcome |-> "throw"]
  /\ toast' = "error"
  /\ UNCHANGED isRealTime

\* catch (error) { setCurrentEntry(null) }
fetchCurrentEntryCatch ==
  /\ currentEntry' = Null
  /\ ce' = [stage |-> "done", outcome |-> "throw"]
  /\ UNCHANGED <<isRealTime, toast>>

\* if (!user) return;
fetchCurrentEntryNoUser ==
  /\ ce' = [stage |-> "done", outcome |-> "nouser"]
  /\ UNCHANGED <<currentEntry, isRealTime, toast>>

\* response.ok: setCurrentEntry(result.data); setIsRealTime(true)
fetchCurrentEntryOk(data) ==
  /\ currentEntry' = data
  /\ isRealTime' = TRUE
  /\ ce' = [stage |-> "done", outcome |-> "ok"]
  /\ UNCHANGED toast

\* !response.ok (404, 401 and the rest alike): setCurrentEntry(null)
fetchCurrentEntryNotOk(status) ==
  /\ currentEntry' = Null
  /\ ce' = [stage |-> "done", outcome |-> "notok"]
  /\ UNCHANGED <<isRealTime, toast>>

\* fetchCurrentEntry after await getCurrentUser().
fetchCurrentEntryAuth ==
  /\ ce.stage = "auth"
  /\ \E u \in AuthOutcomes :
       CASE u = "user" -> /\ ce' = [stage |-> "sent", outcome |-> "pending"]
                          /\ UNCHANGED <<currentEntry, isRealTime, toast>>
         [] u = "none" -> fetchCurrentEntryNoUser
         [] u = "throw" -> fetchCurrentEntryCatch
  /\ UNCHANGED <<now, srv, srvLog, recentActivities, isLoading, elapsedTime,
                 breakTime, view, intervalRef, timers, initPc, ops, fetches, latest,
                 lastOk, events>>

\* fetchCurrentEntry after await fetch(...) and await response.json(): the
\* service answers get_current with its open session, or with a non-OK status,
\* or the request or the decoding throws.
fetchCurrentEntryResponse ==
  /\ ce.stage = "sent"
  /\ \/ fetchCurrentEntryOk(srv)
     \/ \E status \in BadStatuses : fetchCurrentEntryNotOk(status)
     \/ fetchCurrentEntryCatch
  /\ UNCHANGED <<now, srv, srvLog, recentActivities, isLoading, elapsedTime,
                 breakTime, view, intervalRef, timers, initPc, ops, fetches, latest,
                 lastOk, events>>

\* --------------------------------------------------- fetchRecentActivities
\* The timeout fires (or initializeWidget calls) and getCurrentUser() returns:
\* without a user, or when it throws, the call ends; else the GET is sent.
fetchRecentActivitiesAuth(i) ==
  /\ fetches[i].stage = "start"
  /\ \E u \in AuthOutcomes :
       IF u = "user"
         THEN /\ fetches' = [j \in 1..Len(fetches) |->
                               IF j = i
                                 THEN [fetches[j] EXCEPT !.stage = "sent", !.last = TRUE]
                                 ELSE [fetches[j] EXCEPT !.last = FALSE]]
              /\ latest' = Pending
         ELSE /\ fetches' = Remove(fetches, i)
              /\ UNCHANGED latest
  /\ UNCHANGED <<now, srv, srvLog, currentEntry, recentActivities, isLoading,
                 elapsedTime, breakTime, isRealTime, view, intervalRef, timers,
                 initPc, ce, ops, toast, lastOk, events>>

\* The service answers the GET with its entries as they are now.
fetchRecentActivitiesService(i) ==
  /\ fetches[i].stage = "sent"
  /\ fetches' = [fetches EXCEPT ![i].stage = "replied", ![i].data = srvLog]
  /\ UNCHANGED latest
  /\ UNCHANGED <<now, srv, srvLog, currentEntry, recentActivities, isLoading,
                 elapsedTime, breakTime, isRealTime, view, intervalRef, timers,
                 initPc, ce, ops, toast, lastOk, events>>

\* response.ok && result.success && result.data:
\* setRecentActivities(result.data.slice(0, 3))
fetchRecentActivitiesOk(i) ==
  /\ fetches[i].stage = "replied"
  /\ recentActivities' = Slice3(HistoryOf(fetches[i].data))
  /\ latest' = IF fetches[i].last THEN fetches[i].data ELSE latest
  /\ fetches' = Remove(fetches, i)
  /\ UNCHANGED <<now, srv, srvLog, currentEntry, isLoading,
                 elapsedTime, breakTime, isRealTime, view, intervalRef, timers,
                 initPc, ce, ops, toast, lastOk, events>>

\* A non-OK status, success = false, or a throw: logged, nothing else.
fetchRecentActivitiesFail(i) ==
  /\ fetches[i].stage \in {"sent", "replied"}
  /\ fetches' = Remove(fetches, i)
  /\ UNCHANGED latest
  /\ UNCHANGED <<now, srv, srvLog, currentEntry, recentActivities, isLoading,
                 elapsedTime, breakTime, isRealTime, view, intervalRef, timers,
                 initPc, ce, ops, toast, lastOk, events>>

\* ------------------------------------------------------ mutating handlers
\* A handler between invocation and completion: awaiting getCurrentUser
\* ("auth"), request sent ("sent"), response on its way ("replied").  gate is
\* what the handler's own getCurrentUser() call returned ("unasked": it made
\* no such call).
Op(kind, stage, gate) == [kind |-> kind, stage |-> stage, gate |-> gate, res |-> NoRes]

\* The requests of mutating handlers that are in flight.
InFlight == {i \in 1..Len(ops) : ops[i].stage \in {"sent", "replied"}}

\* Busy without the guard: the handler never returns early.
BusyOff(v) == FALSE

\* if (isLoading) return;   (isLoading as the handler's closure holds it)
Busy(v) == v.isLoading

\* Begin with an optimistic clock-out: the session is cleared before the
\* request is answered.
BeginOptimistic(kind, stage) ==
  IF Busy(view)
    THEN UNCHANGED vars
    ELSE /\ Len(ops) < MaxOps
         /\ Len(fetches) < MaxFetches
         /\ events < MaxMutations
         /\ isLoading' = TRUE
         /\ view' = [view EXCEPT !.isLoading = TRUE]
         /\ ops' = Append(ops, Op(kind, stage, "unasked"))
         /\ currentEntry' = IF kind = "clock_out" THEN Null ELSE currentEntry
         /\ UNCHANGED <<now, srv, srvLog, recentActivities,
                        elapsedTime, breakTime, isRealTime, intervalRef,
                        timers, initPc, ce, fetches, latest, toast, lastOk, events>>

\* The handler up to its first await: the guard, setIsLoading(true), and the
\* first call.  A handler that finds the widget busy returns at once.
Begin(kind, stage) ==
  IF Busy(view)
    THEN UNCHANGED vars
    ELSE /\ Len(ops) < MaxOps
         /\ Len(fetches) < MaxFetches
         /\ events < MaxMutations
         /\ isLoading' = TRUE
         /\ view' = [view EXCEPT !.isLoading = TRUE]
         /\ ops' = Append(ops, Op(kind, stage, "unasked"))
         /\ UNCHANGED <<now, srv, srvLog, currentEntry, recentActivities,
                        elapsedTime, breakTime, isRealTime, intervalRef,
                        timers, initPc, ce, fetches, latest, toast, lastOk, events>>

\* handleClockIn starts with await getCurrentUser().
handleClockIn == Begin("clock_in", "auth")

\* handleClockOut starts with await fetch(...).
handleClockOut == Begin("clock_out", "sent")

\* handleStartBreak starts with await fetch(...).
handleStartBreak == Begin("start_break", "sent")

\* handleEndBreak starts with await fetch(...).
handleEndBreak == Begin("end_break", "sent")

\* Finally without setIsLoading(false).
FinallyKeep(i) ==
  /\ UNCHANGED isLoading
  /\ ops' = Remove(ops, i)

\* finally { setIsLoading(false) }: the handler is over.
Finally(i) ==
  /\ isLoading' = FALSE
  /\ ops' = Remove(ops, i)

\* window.dispatchEvent(...); setTimeout(() => fetchRecentActivities(), 1000)
Announce(kind) ==
  /\ lastOk' = kind
  /\ events' = events + 1
  /\ fetches' = Append(fetches, Fetch("start", FALSE, 0))
  /\ UNCHANGED latest

\* handleClockIn, if (result.success)
handleClockInOk(data) ==
  /\ toast' = "success"
  /\ currentEntry' = data
  /\ UNCHANGED <<elapsedTime, breakTime>>
  /\ Announce("clock_in")

\* handleClockOut, if (result.success)
handleClockOutOk(data) ==
  /\ toast' = "success"
  /\ currentEntry' = Null
  /\ elapsedTime' = 0
  /\ breakTime' = 0
  /\ Announce("clock_out")

\* handleStartBreak, if (result.success)
handleStartBreakOk(data) ==
  /\ toast' = "success"
  /\ currentEntry' = data
  /\ breakTime' = 0
  /\ UNCHANGED elapsedTime
  /\ Announce("start_break")

\* handleEndBreakOk without setBreakTime(0).
handleEndBreakOkKeep(data) ==
  /\ toast' = "success"
  /\ currentEntry' = data
  /\ UNCHANGED <<elapsedTime, breakTime>>
  /\ Announce("end_break")

\* handleEndBreak, if (result.success)
handleEndBreakOk(data) ==
  /\ toast' = "success"
  /\ currentEntry' = data
  /\ breakTime' = 0
  /\ UNCHANGED elapsedTime
  /\ Announce("end_break")

\* HandlerError that also resets the widget, as the success branch of
\* handleClockOut does.
HandlerErrorReset(kind) ==
  /\ toast' = "error"
  /\ currentEntry' = Null
  /\ elapsedTime' = 0
  /\ breakTime' = 0
  /\ UNCHANGED <<lastOk, events, fetches, latest>>

\* HandlerError that dispatches the event as the success branch does.
HandlerErrorAnnounce(kind) ==
  /\ toast' = "error"
  /\ events' = events + 1
  /\ UNCHANGED <<currentEntry, elapsedTime, breakTime, lastOk, fetches, latest>>

\* The else branch (success = false) and the catch branch of every handler,
\* and the missing user of handleClockIn: toast.error(...), nothing else.
HandlerError(kind) ==
  /\ toast' = "error"
  /\ UNCHANGED <<currentEntry, elapsedTime, breakTime, lastOk, events, fetches, latest>>

\* handleClockIn after await getCurrentUser().
handleClockInAuth(i) ==
  /\ ops[i].stage = "auth"
  /\ \E u \in AuthOutcomes :
       IF u = "user"
         THEN /\ ops' = [ops EXCEPT ![i].stage = "sent", ![i].gate = "user"]
              /\ UNCHANGED <<isLoading, toast, currentEntry, elapsedTime,
                             breakTime, lastOk, events, fetches, latest>>
         ELSE /\ HandlerError(ops[i].kind)
              /\ Finally(i)
  /\ UNCHANGED <<now, srv, srvLog, recentActivities, isRealTime, view,
                 intervalRef, timers, initPc, ce>>

\* The request reaches the service, which applies it and answers.
Service(i) ==
  /\ ops[i].stage = "sent"
  /\ LET r == ServiceApply(srv, ops[i].kind, now) IN
       /\ srv' = r.srv
       /\ srvLog' = LogAfter(srvLog, ops[i].kind, r.success)
       /\ ops' = [ops EXCEPT ![i].stage = "replied",
                             ![i].res = [success |-> r.success, data |-> r.data]]
  /\ UNCHANGED <<now, currentEntry, recentActivities, isLoading, elapsedTime,
                 breakTime, isRealTime, view, intervalRef, timers, initPc, ce,
                 fetches, latest, toast, lastOk, events>>

\* The handler after await response.json(): the branch on result.success.
Settle(i) ==
  /\ ops[i].stage = "replied"
  /\ LET k == ops[i].kind
         r == ops[i].res
     IN IF r.success
          THEN CASE k = "clock_in" -> handleClockInOk(r.data)
                 [] k = "clock_out" -> handleClockOutOk(r.data)
                 [] k = "start_break" -> handleStartBreakOk(r.data)
                 [] k = "end_break" -> handleEndBreakOk(r.data)
          ELSE HandlerError(k)
  /\ Finally(i)
  /\ UNCHANGED <<now, srv, srvLog, recentActivities, isRealTime, view,
                 intervalRef, timers, initPc, ce>>

\* The handler's catch: fetch rejected (the request may or may not have
\* reached the service) or response.json() threw.
Reject(i) ==
  /\ ops[i].stage \in {"sent", "replied"}
  /\ HandlerError(ops[i].kind)
  /\ Finally(i)
  /\ UNCHANGED <<now, srv, srvLog, recentActivities, isRealTime, view,
                 intervalRef, timers, initPc, ce>>

\* ------------------------------------------------------------ the widget
\* No display computation made yet.
NoDisplay == [fn |-> "none"]

Services == {Null, Session("active", 0, NoTime), Session("break", 0, 0)}

Init ==
  /\ now = 0
  /\ srv \in Services
  /\ srvLog \in {IF srv = Null THEN 0 ELSE 1, MaxEntries - 1}
  /\ currentEntry = Null
  /\ recentActivities = <<>>
  /\ isLoading = TRUE
  /\ elapsedTime = 0
  /\ breakTime = 0
  /\ isRealTime = FALSE
  /\ view = [isLoading |-> TRUE, currentEntry |-> Null]
  /\ intervalRef = Null
  /\ timers = {}
  /\ initPc = "auth"
  /\ ce = [stage |-> "idle", outcome |-> "pending"]
  /\ ops = <<>>
  /\ fetches = <<>>
  /\ toast = "none"
  /\ lastOk = "none"
  /\ events = 0
  /\ latest = Pending
  /\ mounted = TRUE
  /\ clockOn = TRUE
  /\ currentTime = 0
  /\ disp = NoDisplay

\* Everything but the user: the initial load, responses, renders, timers.
Background ==
  \/ initializeWidget
  \/ initializeJoin
  \/ initializeTimeout
  \/ fetchCurrentEntryAuth
  \/ fetchCurrentEntryResponse
  \/ \E i \in 1..Len(fetches) :
       \/ fetchRecentActivitiesAuth(i)
       \/ fetchRecentActivitiesService(i)
       \/ fetchRecentActivitiesOk(i)
       \/ fetchRecentActivitiesFail(i)
  \/ \E i \in 1..Len(ops) :
       \/ handleClockInAuth(i)
       \/ Service(i)
       \/ Settle(i)
       \/ Reject(i)
  \/ Commit
  \/ Tick
  \/ Advance

\* The user presses the Clock In button.
ClickClockIn == mounted /\ "clock_in" \in Buttons(view) /\ handleClockIn

\* The user presses the Clock Out button.
ClickClockOut == mounted /\ "clock_out" \in Buttons(view) /\ handleClockOut

\* The 1-second clock interval fires: setCurrentTime(new Date()).
ClockTick ==
  /\ clockOn
  /\ currentTime' = now
  /\ UNCHANGED <<now, srv, srvLog, currentEntry, recentActivities, isLoading,
                 elapsedTime, breakTime, isRealTime, view, intervalRef, timers,
                 initPc, ce, ops, fetches, toast, lastOk, events, latest,
                 mounted, clockOn, disp>>

\* Unmount whose session-timer cleanup is missing.
UnmountLeaky ==
  /\ mounted
  /\ mounted' = FALSE
  /\ clockOn' = FALSE
  /\ UNCHANGED <<now, srv, srvLog, currentEntry, recentActivities, isLoading,
                 elapsedTime, breakTime, isRealTime, view, intervalRef, timers,
                 initPc, ce, ops, fetches, toast, lastOk, events, latest,
                 currentTime, disp>>

\* The component is torn down: the cleanups of both effects run.
Unmount ==
  /\ mounted
  /\ mounted' = FALSE
  /\ clockOn' = FALSE
  /\ timers' = timers \ {intervalRef}
  /\ UNCHANGED <<now, srv, srvLog, currentEntry, recentActivities, isLoading,
                 elapsedTime, breakTime, isRealTime, view, intervalRef,
                 initPc, ce, ops, fetches, toast, lastOk, events, latest,
                 currentTime, disp>>

\* The widget as rendered: only the buttons on screen can be pressed.
Next ==
  \/ (ClickClockIn \/ ClickClockOut \/ Background) /\ UNCHANGED extra
  \/ ClockTick
  \/ Unmount

Spec == Init /\ [][Next]_vars

\* The four handlers as operations: each may be invoked in any state of the
\* widget, busy or not (between two history refreshes: Spec has the
\* interleavings of the refreshes with the handlers).
NextHandlers ==
  /\ \/ fetches = <<>> /\ (handleClockIn \/ handleClockOut \/ handleStartBreak \/ handleEndBreak)
     \/ Background
  /\ UNCHANGED extra

SpecHandlers == Init /\ [][NextHandlers]_vars

\* ------------------------------------------------------------ properties
BreakKinds == {"start_break", "end_break"}

\* A handler ends on this step: its finally has run.
Ends(i) == i \in 1..Len(ops) /\ ops' = Remove(ops, i)

C2_NeverOptimistic ==
  [][(ops # <<>> \/ ops' # <<>>) /\ currentEntry' # currentEntry
       => \E i \in 1..Len(ops) :
            Ends(i) /\ ops[i].stage = "replied" /\ ops[i].res.success]_vars

\* The service has accepted a start-break whose response has not arrived: the
\* widget still shows the session as active.
C2_Witness ==
  \E i \in 1..Len(ops) :
    /\ ops[i].kind = "start_break" /\ ops[i].stage = "replied"
    /\ ops[i].res.success /\ currentEntry.status = "active"

\* C3: a handler that ends on success = false, on a throwing request or
\* decoding, or on a missing user leaves currentEntry, elapsedTime, breakTime
\* and recentActivities as they were and raises an error notification.
C3_FailureLeavesState ==
  [][\A i \in 1..Len(ops) :
       Ends(i) /\ (ops[i].stage # "replied" \/ ~ops[i].res.success
                     \/ toast' # "success")
         => /\ toast' = "error"
            /\ UNCHANGED <<currentEntry, elapsedTime, breakTime, recentActivities>>]_vars

\* A clock-out has failed and the session is still open, its timer still
\* running.
C3_Witness ==
  /\ ops = <<>> /\ toast = "error" /\ lastOk = "clock_in"
  /\ currentEntry.status = "active" /\ currentEntry \in timers

\* C4: after a successful clock-out, and until the next successful clock-in,
\* currentEntry is null and both timers read zero.
C4_ClockedOutReadsZero ==
  lastOk = "clock_out" => currentEntry = Null /\ elapsedTime = 0 /\ breakTime = 0

\* C5: a successful clock-in, start-break or end-break makes currentEntry the
\* session its response carries (after clock-in, the session the service
\* created: active, with the service's clock_in), and a successful start-break
\* or end-break sets breakTime to zero.
C5_ServerCopy ==
  [][\A i \in 1..Len(ops) :
       /\ Ends(i) /\ ops[i].stage = "replied" /\ ops[i].res.success
       /\ toast' = "success" /\ ops[i].kind # "clock_out"
       => /\ currentEntry' = ops[i].res.data
          /\ ops[i].kind \in BreakKinds => breakTime' = 0
          /\ ops[i].kind = "clock_in"
               => currentEntry'.status = "active" /\ currentEntry' = srv]_vars

\* A break that had lasted a second has been ended: the session is active
\* again and the break timer is back at zero.
C5_Witness ==
  /\ lastOk = "end_break" /\ currentEntry.status = "active"
  /\ currentEntry.break_start # NoTime /\ now > currentEntry.break_start
  /\ breakTime = 0

\* C6: no clock-in handler runs while currentEntry is active or on break, no
\* start-break or end-break handler runs without such a session, and the
\* render offers no such action.
C6_ActionsDisabled ==
  /\ \A i \in 1..Len(ops) :
       /\ ops[i].kind = "clock_in" => ~IsOpen(currentEntry)
       /\ ops[i].kind \in BreakKinds => IsOpen(currentEntry)
  /\ IsOpen(currentEntry) => "clock_in" \notin Buttons(view)
  /\ ~IsOpen(currentEntry) => Buttons(view) \cap BreakKinds = {}

\* The widget is idle with an open session on screen.
C6_Witness == IsOpen(currentEntry) /\ ~view.isLoading /\ ops = <<>>

\* The client-observed status of an entry.
Status(e) ==
  CASE e = Null -> "NONE"
    [] e.status = "active" -> "ACTIVE"
    [] e.status = "break" -> "BREAK"
    [] OTHER -> "COMPLETED"

\* C7: a user action changes the client-observed status only along
\* NONE -> ACTIVE (clock-in), ACTIVE -> BREAK (start-break),
\* BREAK -> ACTIVE (end-break), ACTIVE -> NONE (clock-out).
C7_Transitions ==
  [][\A i \in 1..Len(ops) :
       Ends(i) /\ Status(currentEntry') # Status(currentEntry)
         => <<ops[i].kind, Status(currentEntry), Status(currentEntry')>> \in
              {<<"clock_in", "NONE", "ACTIVE">>,
               <<"start_break", "ACTIVE", "BREAK">>,
               <<"end_break", "BREAK", "ACTIVE">>,
               <<"clock_out", "ACTIVE", "NONE">>}]_vars

\* A session was opened and then closed from the widget.
C7_Witness == lastOk = "clock_out" /\ currentEntry = Null /\ srvLog > 0

\* C8: with an active session and no request in flight the start-break action
\* is offered, and with a session on break the end-break action is offered.
C8_BreakOffered ==
  ~view.isLoading /\ ops = <<>>
    => /\ view.currentEntry.status = "active" => "start_break" \in Buttons(view)
       /\ view.currentEntry.status = "break" => "end_break" \in Buttons(view)

\* C9: every request of a mutating handler is sent after a getCurrentUser()
\* call of that handler has returned a user.
C9_Gated == \A i \in InFlight : ops[i].gate = "user"

\* C10: when fetchCurrentEntry has ended without a user, on a non-OK status or
\* on a throw, currentEntry is null and no error notification was raised.
C10_QuietFallback ==
  ce.stage = "done" /\ ce.outcome \in {"nouser", "notok", "throw"}
    => currentEntry = Null /\ toast # "error"

\* The current-session query was answered with a non-OK status.
C10_Witness == ce.stage = "done" /\ ce.outcome = "notok" /\ currentEntry = Null

\* C11: recentActivities never holds more than three entries; it changes only
\* when a history response is handled, and then it is the first min(3, n) of
\* the n entries the service returned, in the service's order.
C11_FirstThree ==
  [][/\ Len(recentActivities') <= 3
     /\ recentActivities' # recentActivities
          => \E i \in 1..Len(fetches) :
               LET l == HistoryOf(fetches[i].data) IN
                 /\ fetches[i].stage = "replied"
                 /\ fetches' = Remove(fetches, i)
                 /\ Len(recentActivities') = (IF Len(l) < 3 THEN Len(l) ELSE 3)
                 /\ \A k \in 1..Len(recentActivities') :
                      recentActivities'[k] = l[k]]_vars

\* The service returned more than three entries and the widget kept three.
C11_Witness == Len(recentActivities) = 3 /\ recentActivities[1] > 3

\* C12: the timeTrackingChanged event is dispatched exactly once on the step
\* that handles a response reporting success, the step that updates
\* currentEntry from it, and on no other step: not when a handler fails, is
\* ignored because the widget is busy, or finds no user.
C12_OneEventPerSuccess ==
  [][IF \E i \in 1..Len(ops) :
          /\ Ends(i) /\ ops[i].stage = "replied" /\ ops[i].res.success
          /\ toast' = "success"
       THEN /\ events' = events + 1
            /\ \E i \in 1..Len(ops) :
                 /\ Ends(i) /\ lastOk' = ops[i].kind
                 /\ currentEntry' = (IF ops[i].kind = "clock_out" THEN Null
                                     ELSE ops[i].res.data)
       ELSE events' = events]_vars

\* One mutation succeeded and the next one failed: one event so far.
C12_Witness ==
  events = 1 /\ lastOk = "clock_in" /\ toast = "error" /\ ops = <<>>

\* ---------------------------------------------------------------------------
\* Display computations on timestamps.
\* ---------------------------------------------------------------------------

MinuteMs == 1000 * 60
HourMs == 1000 * 60 * 60

\* The instants used as inputs are StepMs apart, so that hours, minutes and
\* seconds all differ between them.
StepMs == HourMs + MinuteMs + 1000

\* Texts that are no timestamp.  The empty one is also how a missing field
\* reads (both are falsy).
RawTexts == {"", "garbage", "31/02/2024"}

\* A timestamp string: its text, whether it parses, and the instant it
\* denotes when it does.
Stamps ==
  {[raw |-> "iso", valid |-> TRUE, ms |-> k * StepMs] : k \in 0..MaxStamp}
    \cup {[raw |-> r, valid |-> FALSE, ms |-> 0] : r \in RawTexts}

\* JavaScript numbers: NaN or an integer.
NaN == [nan |-> TRUE, v |-> 0]
Num(n) == [nan |-> FALSE, v |-> n]
Minus(a, b) == IF a.nan \/ b.nan THEN NaN ELSE Num(a.v - b.v)

\* What a display computation produces.
Text(t) == [kind |-> "text", text |-> t]
Raw(t) == [kind |-> "raw", text |-> t]
Clock(h, m, sec) == [kind |-> "clock", h |-> h, m |-> m, s |-> sec]

\* parseISO(string) and new Date(string): an Invalid Date for a text that
\* is no timestamp, never an exception.
parseISO(stamp) == [valid |-> stamp.valid, ms |-> stamp.ms]

\* Date.prototype.getTime(): NaN for an Invalid Date.
getTime(date) == IF date.valid THEN Num(date.ms) ELSE NaN

\* Math.floor, toString and padStart of the three fields; NaN prints as "NaN".
formatTime(milliseconds) ==
  IF milliseconds.nan
    THEN Text("NaN:NaN:NaN")
    ELSE Clock(milliseconds.v \div HourMs,
               (milliseconds.v % HourMs) \div MinuteMs,
               (milliseconds.v % MinuteMs) \div 1000)

\* updateTimer: the value handed to setElapsedTime (active) or setBreakTime
\* (break with a truthy break_start); otherwise the cell keeps its value old.
updateTimer(status, stamp, nowMs, old) ==
  IF status = "active" \/ stamp.raw # ""
    THEN Minus(Num(nowMs), getTime(parseISO(stamp)))
    ELSE Num(old)

\* formatActivityTime: format() throws a RangeError on an Invalid Date and the
\* catch returns the argument.
formatActivityTime(timeString) ==
  LET date == parseISO(timeString) IN
    IF date.valid
      THEN formatTime(Num(date.ms % (24 * HourMs)))
      ELSE Raw(timeString.raw)

\* formatActivityDuration: nothing in the try block throws, so its catch
\* ('Unknown') is never taken.
formatActivityDuration(clockIn, clockOut) ==
  IF clockOut.raw = ""
    THEN Text("In Progress")
    ELSE formatTime(Minus(getTime(parseISO(clockOut)), getTime(parseISO(clockIn))))

\* The timer line of the render for a session whose reference timestamp is
\* stamp, after a tick at instant k.
ShowTimer ==
  \E status \in {"active", "break"}, stamp \in Stamps, k \in 0..MaxStamp :
    /\ stamp.valid => k * StepMs >= stamp.ms
    /\ disp' = [fn |-> "updateTimer", status |-> status, stamps |-> {stamp},
                now |-> k,
                out |-> formatTime(updateTimer(status, stamp, k * StepMs, 0))]

\* The clock-in / clock-out time of a history row.
ShowActivityTime ==
  \E timeString \in Stamps :
    disp' = [fn |-> "formatActivityTime", stamps |-> {timeString},
             out |-> formatActivityTime(timeString)]

\* The duration of a history row.
ShowActivityDuration ==
  \E clockIn \in Stamps, clockOut \in Stamps :
    /\ clockIn.valid /\ clockOut.valid => clockOut.ms >= clockIn.ms
    /\ disp' = [fn |-> "formatActivityDuration", stamps |-> {clockIn, clockOut},
                out |-> formatActivityDuration(clockIn, clockOut)]

NextDisplay ==
  /\ ShowTimer \/ ShowActivityTime \/ ShowActivityDuration
  /\ UNCHANGED <<now, srv, srvLog, currentEntry, recentActivities, isLoading,
                 elapsedTime, breakTime, isRealTime, view, intervalRef, timers,
                 initPc, ce, ops, fetches, toast, lastOk, events, latest,
                 mounted, clockOn, currentTime>>

SpecDisplay == Init /\ [][NextDisplay]_vars

\* C13: whatever the authentication provider and the service do during the
\* initial load, the loading state ends: the widget is never left loading with
\* nothing pending that ends it, and after a failed load it has no session
\* and no history.
C13_LoadingEnds ==
  /\ isLoading => initPc \in {"auth", "fetch", "timeout"} \/ ops # <<>>
  /\ initPc = "timeout" /\ ~isRealTime /\ latest = Pending
       => currentEntry = Null /\ recentActivities = <<>>

\* C14: once the widget is torn down no periodic timer of it is scheduled:
\* neither the clock interval nor a session-timer interval.
C14_TimersCancelled == ~mounted => timers = {} /\ ~clockOn

\* The widget was torn down while a session timer was running.
C14_Witness == ~mounted /\ IsOpen(intervalRef) /\ IsOpen(currentEntry)

\* Everything a session-timer tick leaves alone.
TickFrame ==
  <<now, srv, srvLog, currentEntry, recentActivities, isLoading, isRealTime,
    view, intervalRef, timers, initPc, ce, ops, fetches, toast, lastOk,
    events, latest, mounted, clockOn, currentTime, disp>>

\* C15: a session-timer tick sets elapsedTime to now - clock_in when the
\* session on screen is active and breakTime to now - break_start when it is
\* on break; and while the same session stays active elapsedTime never
\* decreases.
C15_ElapsedFollowsClock ==
  [][/\ timers # {} /\ UNCHANGED TickFrame
          => /\ view.currentEntry.status = "active"
                  => elapsedTime' = now - view.currentEntry.clock_in
             /\ view.currentEntry.status = "break"
                  /\ view.currentEntry.break_start # NoTime
                  => breakTime' = now - view.currentEntry.break_start
     /\ mounted' /\ currentEntry.status = "active" /\ currentEntry' = currentEntry
          => elapsedTime' >= elapsedTime]_vars

\* C16: a successful start-break sets breakTime to zero, and while the status
\* stays break no step changes elapsedTime.
C16_WorkTimerFrozen ==
  [][/\ \A i \in 1..Len(ops) :
          /\ Ends(i) /\ ops[i].kind = "start_break" /\ ops[i].stage = "replied"
          /\ ops[i].res.success /\ toast' = "success"
          => breakTime' = 0
     /\ currentEntry.status = "break" /\ currentEntry'.status = "break"
          => elapsedTime' = elapsedTime]_vars

\* C17: at most one session-timer interval is scheduled at any time, and once
\* a render with no open session is committed none is.
C17_OneSessionTimer ==
  /\ Cardinality(timers) <= 1
  /\ mounted /\ view.currentEntry = currentEntry /\ ~IsOpen(currentEntry)
       => timers = {}

\* The session was closed and the render that shows it is committed: the
\* interval that ran for it is gone.
C17_Witness ==
  /\ lastOk = "clock_out" /\ currentEntry = Null /\ view.currentEntry = Null
  /\ IsOpen(intervalRef) = FALSE /\ timers = {}

\* C19: once every handler that set the busy flag has completed, whatever its
\* outcome, the flag is clear.
C19_BusyReleased == initPc = "done" /\ ops = <<>> => ~isLoading

\* A clock-in that found no user, or whose request failed, has completed.
C19_Witness ==
  /\ initPc = "done" /\ ops = <<>> /\ ~isLoading
  /\ toast = "error" /\ lastOk = "none"

\* C20: once every history fetch has completed, recentActivities is what the
\* most recently issued fetch delivered.
C20_LatestWins ==
  fetches = <<>> /\ latest # Pending
    => recentActivities = Slice3(HistoryOf(latest))

\* C18: a display computation whose reference timestamp is unparsable neither
\* throws nor shows the unparsable text: its output is a fixed text or a
\* fixed clock value.
C18_Placeholder ==
  disp.fn # "none" /\ (\E stamp \in disp.stamps : ~stamp.valid)
    => disp.out.kind \in {"text", "clock"}

\* C21: whenever the widget is idle (mounted, initial load finished after it
\* read the service's session, no handler between invocation and completion)
\* its current session has the status of the service's open session, and is
\* none exactly when the service holds none.
C21_AgreesWithService ==
  mounted /\ initPc = "done" /\ isRealTime /\ ops = <<>> /\ ~isLoading
    => currentEntry.status = srv.status

====
